---- MODULE Spec2Model ----
(***************************************************************************)
(* Model of cpu-scheduling-simulation.py: Simulation.run drives one        *)
(* Scheduler per policy (FCFS, SJF, SRTN, RR) over a deep copy of the job  *)
(* list; Scheduler.run is the tick loop                                    *)
(*   get_ready_jobs ; work ; context_switch ; time += 1.                   *)
(* Python lists of Job objects are sequences of object identities (the     *)
(* position of the job in the input list); the Job objects themselves are  *)
(* records held in jobs (the originals) and jobs_copy (the deep copy the   *)
(* current scheduler works on).                                            *)
(***************************************************************************)
EXTENDS Integers, Sequences, FiniteSets, TLC

\* ---------------------------------------------------------------- bounds
MaxJobs == 2
MaxDur == 3
MaxArr == 2

\* math.inf, the value of finished_at until Job.finish is called; larger than
\* every tick a bounded run reaches.
Inf == 1000000

\* current_job is None
None == 0

\* schedulers = [FCFS, SJF, SRTN, RR]
schedulers == <<"FCFS", "SJF", "SRTN", "RR">>

VARIABLES
    jobs,                    \* Simulation.jobs: the original Job objects
    sched,                   \* position of Simulation.run in schedulers
    jobs_copy,               \* the Job objects of the current scheduler
    unfinished_jobs,         \* Scheduler.unfinished_jobs
    queue,                   \* Scheduler.queue
    current_job,             \* Scheduler.current_job (None or a job)
    finished_jobs,           \* Scheduler.finished_jobs
    total_jobs,              \* Scheduler.total_jobs
    time,                    \* Scheduler.time
    total_context_switches,  \* Scheduler.total_context_switches
    added_jobs,              \* Scheduler.added_jobs
    pc,                      \* control position
    results,                 \* PerformanceMetric returned per policy so far
    error,                   \* exception that ended the program, or "none"
    last_served,             \* history: tick of each job's latest Job.work
    \* page_replacement.py (a separate program)
    total_page_frames,       \* Simulation.total_page_frames
    pages,                   \* Simulation.pages, the reference string
    algo,                    \* position of Simulation.run in algos
    frames,                  \* PageReplacementAlgo.frames
    second_chances,          \* SecondChance.second_chances
    index,                   \* run: index of the reference being processed
    total_page_faults,       \* run: total_page_faults
    page_results,            \* page faults returned per algorithm so far
    ppc                      \* control position of page_replacement.py

\* state of cpu-scheduling-simulation.py
svars == <<jobs, sched, jobs_copy, unfinished_jobs, queue, current_job,
           finished_jobs, total_jobs, time, total_context_switches,
           added_jobs, pc, results, error, last_served>>

\* state of page_replacement.py
pvars == <<total_page_frames, pages, algo, frames, second_chances, index,
           total_page_faults, page_results, ppc>>

vars == <<svars, pvars>>

\* ------------------------------------------------------------ Job (class)
\* Job.__init__
Job(id, submitted_at, duration) ==
    [id |-> id, submitted_at |-> submitted_at, duration |-> duration,
     currentDuration |-> duration, finished_at |-> Inf]

\* variant: a job counts as finished only below zero
is_finished_Strict(j) == j.currentDuration < 0

\* Job.is_finished
is_finished(j) == j.currentDuration <= 0

\* variant: the finish tick is stamped after the clock has advanced
finish_Late(j, t) == [j EXCEPT !.finished_at = t + 1]

\* variant: the finish tick is stamped one tick early
finish_Early(j, t) == [j EXCEPT !.finished_at = t - 1]

\* Job.finish
finish(j, t) == [j EXCEPT !.finished_at = t]

\* Job.getTurnaround
getTurnaround(j) == j.finished_at - j.submitted_at

\* variant: a tick of service removes two units
JobWork_Double(j) == [j EXCEPT !.currentDuration = @ - 2]

\* Job.work
JobWork(j) == [j EXCEPT !.currentDuration = @ - 1]

\* ------------------------------------------------------- Python built-ins
\* min(seq, key=...): the position of the first element whose key is
\* minimal, given the sequence of the elements' keys
PyMinIndex(keys) ==
    CHOOSE i \in 1..Len(keys) :
        /\ \A k \in 1..Len(keys) : keys[i] <= keys[k]
        /\ \A k \in 1..(i - 1) : keys[k] > keys[i]

\* list.remove(x): drop the first occurrence of x
PyRemove(q, x) ==
    LET i == CHOOSE k \in 1..Len(q) :
                 q[k] = x /\ \A m \in 1..(k - 1) : q[m] # x
    IN  SubSeq(q, 1, i - 1) \o SubSeq(q, i + 1, Len(q))

\* list.pop(0) leaves the tail
PyPop0Rest(q) == Tail(q)

RECURSIVE SumSeq(_)
\* sum([...])
SumSeq(s) == IF s = <<>> THEN 0 ELSE Head(s) + SumSeq(Tail(s))

\* ------------------------------------------------------------ job inputs
JobSpecs == (0..MaxArr) \X (1..MaxDur)

\* read_data: one Job per line, id / submitted_at / duration
MkJobs(specs) == [i \in 1..Len(specs) |-> Job(i, specs[i][1], specs[i][2])]

\* fixture: durations 5,2,8,1 all arriving at 0
FixtureAllAtZero == <<<<0, 5>>, <<0, 2>>, <<0, 8>>, <<0, 1>>>>
\* fixture: A (arrival 0, duration 10), B (arrival 1, duration 2)
FixtureStaggered == <<<<0, 10>>, <<1, 2>>>>

\* page_replacement.py is not running
PageOff ==
    /\ total_page_frames = 0
    /\ pages = <<>>
    /\ algo = 1
    /\ frames = <<>>
    /\ second_chances = <<>>
    /\ index = 0
    /\ total_page_faults = 0
    /\ page_results = <<>>
    /\ ppc = "off"

InputSpecs ==
    (UNION {[1..n -> JobSpecs] : n \in 0..MaxJobs})
        \cup {FixtureAllAtZero, FixtureStaggered}

Init ==
    /\ \E specs \in InputSpecs : jobs = MkJobs(specs)
    /\ sched = 1
    /\ jobs_copy = <<>>
    /\ unfinished_jobs = <<>>
    /\ queue = <<>>
    /\ current_job = None
    /\ finished_jobs = <<>>
    /\ total_jobs = 0
    /\ time = 0
    /\ total_context_switches = 0
    /\ added_jobs = FALSE
    /\ pc = "sim_loop"
    /\ results = <<>>
    /\ error = "none"
    /\ last_served = <<>>
    /\ PageOff

\* the class Simulation.run is currently driving ("none" once the for loop
\* over schedulers is exhausted)
Policy == IF sched \in 1..Len(schedulers) THEN schedulers[sched] ELSE "none"

\* ------------------------------------------------------------- Scheduler
\* variant: a job arriving at this very tick is not queued
IsReady_Strict(j, t) == j.submitted_at < t

\* get_ready_jobs: the jobs moved to the queue (submitted_at <= time)
IsReady(j, t) == j.submitted_at <= t

\* variant: a job arriving at this very tick is also kept pending
StillPending_Dup(j, t) == j.submitted_at >= t

\* get_ready_jobs: the jobs kept in unfinished_jobs (submitted_at > time)
StillPending(j, t) == j.submitted_at > t

\* Scheduler.get_ready_jobs
GetReadyJobs ==
    /\ pc = "get_ready_jobs"
    /\ LET ready == SelectSeq(unfinished_jobs,
                              LAMBDA j : IsReady(jobs_copy[j], time))
       IN  /\ added_jobs' = IF ready # <<>> THEN TRUE ELSE added_jobs
           /\ unfinished_jobs' = SelectSeq(unfinished_jobs,
                                   LAMBDA j : StillPending(jobs_copy[j], time))
           /\ queue' = queue \o ready
    /\ pc' = "work"
    /\ UNCHANGED pvars
    /\ UNCHANGED <<jobs, sched, jobs_copy, current_job, finished_jobs,
                   total_jobs, time, total_context_switches, results, error,
                   last_served>>

\* Scheduler.work
Work ==
    /\ pc = "work"
    /\ IF current_job # None
       THEN LET worked == JobWork(jobs_copy[current_job])
            IN  /\ last_served' = [last_served EXCEPT ![current_job] = time]
                /\ IF is_finished(worked)
                   THEN /\ jobs_copy' = [jobs_copy EXCEPT
                                           ![current_job] = finish(worked, time)]
                        /\ finished_jobs' = Append(finished_jobs, current_job)
                        /\ current_job' = None
                   ELSE /\ jobs_copy' = [jobs_copy EXCEPT
                                           ![current_job] = worked]
                        /\ UNCHANGED <<finished_jobs, current_job>>
       ELSE UNCHANGED <<jobs_copy, finished_jobs, current_job, last_served>>
    /\ pc' = "context_switch"
    /\ UNCHANGED pvars
    /\ UNCHANGED <<jobs, sched, unfinished_jobs, queue, total_jobs, time,
                   total_context_switches, added_jobs, results, error>>

\* ------------------------------------------------------------------ FCFS
\* variant: queue.pop() takes the most recently queued job
FCFSNext_Last(q) == q[Len(q)]

\* FCFS.context_switch: queue.pop(0) returns the head
FCFSNext(q) == Head(q)

\* variant: the test on current_job is left out
FCFSMayDispatch_Busy == queue # <<>>

\* variant: the test on current_job is inverted
FCFSMayDispatch_Inverted == queue # <<>> /\ current_job # None

\* FCFS.context_switch: `if not self.queue: return` and
\* `if self.current_job is None`
FCFSMayDispatch == queue # <<>> /\ current_job = None

\* FCFS.context_switch
FCFS_context_switch ==
    /\ pc = "context_switch"
    /\ Policy = "FCFS"
    /\ IF FCFSMayDispatch
       THEN /\ current_job' = FCFSNext(queue)
            /\ queue' = PyRemove(queue, FCFSNext(queue))
            /\ total_context_switches' = total_context_switches + 1
       ELSE UNCHANGED <<current_job, queue, total_context_switches>>
    /\ pc' = "advance"
    /\ UNCHANGED pvars
    /\ UNCHANGED <<jobs, sched, jobs_copy, unfinished_jobs, finished_jobs,
                   total_jobs, time, added_jobs, results, error, last_served>>

\* ------------------------------------------------------------------- SJF
\* variant: the longest job is preferred
SJFKey_Longest(j) == 0 - j.duration

\* SJF.context_switch: key=lambda job: job.duration
SJFKey(j) == j.duration

\* variant: the test on current_job is left out
SJFMayDispatch_Busy == queue # <<>>

\* SJF.context_switch: `if not self.queue: return` and
\* `if self.current_job is None`
SJFMayDispatch == queue # <<>> /\ current_job = None

\* SJF.context_switch
SJF_context_switch ==
    /\ pc = "context_switch"
    /\ Policy = "SJF"
    /\ IF SJFMayDispatch
       THEN LET shortest_job ==
                    queue[PyMinIndex([k \in 1..Len(queue) |->
                                         SJFKey(jobs_copy[queue[k]])])]
            IN  /\ queue' = PyRemove(queue, shortest_job)
                /\ current_job' = shortest_job
                /\ total_context_switches' = total_context_switches + 1
       ELSE UNCHANGED <<current_job, queue, total_context_switches>>
    /\ pc' = "advance"
    /\ UNCHANGED pvars
    /\ UNCHANGED <<jobs, sched, jobs_copy, unfinished_jobs, finished_jobs,
                   total_jobs, time, added_jobs, results, error, last_served>>

\* ------------------------------------------------------------------ SRTN
\* SRTN.context_switch: key=lambda job: job.currentDuration
SRTNKey(j) == j.currentDuration

\* variant: the candidate is compared with the running job's total duration
SRTNPreempts_Total(c, cur) == c.currentDuration < cur.duration

\* variant: a tie preempts as well
SRTNPreempts_Eager(c, cur) == c.currentDuration <= cur.currentDuration

\* variant: the comparison is reversed
SRTNPreempts_Flipped(c, cur) == c.currentDuration > cur.currentDuration

\* SRTN.context_switch: the preemption test of the first elif
SRTNPreempts(c, cur) == c.currentDuration < cur.currentDuration

\* SRTN.context_switch: the queue after a preemption
\* (queue.remove(shortest_runtime_job); queue.append(current_job))
SRTNRequeue(q, c, cur) == Append(PyRemove(q, c), cur)

\* SRTN.context_switch
SRTN_context_switch ==
    /\ pc = "context_switch"
    /\ Policy = "SRTN"
    /\ IF queue = <<>>
       THEN UNCHANGED <<current_job, queue, total_context_switches>>
       ELSE LET shortest_runtime_job ==
                    queue[PyMinIndex([k \in 1..Len(queue) |->
                                         SRTNKey(jobs_copy[queue[k]])])]
            IN  IF current_job = None
                THEN /\ queue' = PyRemove(queue, shortest_runtime_job)
                     /\ current_job' = shortest_runtime_job
                     /\ total_context_switches' = total_context_switches + 1
                ELSE IF SRTNPreempts(jobs_copy[shortest_runtime_job],
                                     jobs_copy[current_job])
                THEN /\ queue' = SRTNRequeue(queue, shortest_runtime_job,
                                             current_job)
                     /\ current_job' = shortest_runtime_job
                     /\ total_context_switches' = total_context_switches + 1
                ELSE IF /\ jobs_copy[shortest_runtime_job].currentDuration
                             >= jobs_copy[current_job].currentDuration
                        /\ added_jobs
                THEN /\ total_context_switches' = total_context_switches + 1
                     /\ UNCHANGED <<current_job, queue>>
                ELSE UNCHANGED <<current_job, queue, total_context_switches>>
    /\ pc' = "advance"
    /\ UNCHANGED pvars
    /\ UNCHANGED <<jobs, sched, jobs_copy, unfinished_jobs, finished_jobs,
                   total_jobs, time, added_jobs, results, error, last_served>>

\* -------------------------------------------------------------------- RR
\* variant: the running job is put back at the head of the queue
RRRequeue_Front(q, cur) == <<cur>> \o q

\* RR.context_switch: queue.append(self.current_job)
RRRequeue(q, cur) == Append(q, cur)

\* variant: the counter moves only when a job is dispatched
RRCount_OnDispatch ==
    IF queue = <<>> THEN total_context_switches
    ELSE total_context_switches + 1

\* RR.context_switch: self.total_context_switches += 1, before any test
RRCount == total_context_switches + 1

\* RR.context_switch
RR_context_switch ==
    /\ pc = "context_switch"
    /\ Policy = "RR"
    /\ total_context_switches' = RRCount
    /\ IF queue = <<>>
       THEN UNCHANGED <<current_job, queue>>
       ELSE LET q1 == IF current_job # None
                      THEN RRRequeue(queue, current_job)
                      ELSE queue
            IN  /\ current_job' = Head(q1)
                /\ queue' = PyPop0Rest(q1)
    /\ pc' = "advance"
    /\ UNCHANGED pvars
    /\ UNCHANGED <<jobs, sched, jobs_copy, unfinished_jobs, finished_jobs,
                   total_jobs, time, added_jobs, results, error, last_served>>

\* --------------------------------------------------------- Scheduler.run
\* variant: the clock is not advanced
NextTime_Stuck(t) == t

\* the value of time after `self.time += 1`
NextTime(t) == t + 1

\* while len(self.finished_jobs) != self.total_jobs
LoopCondition == Len(finished_jobs) # total_jobs

\* Scheduler.run: the loop test succeeds, the body is entered
RunLoop ==
    /\ pc = "while"
    /\ LoopCondition
    /\ pc' = "get_ready_jobs"
    /\ UNCHANGED pvars
    /\ UNCHANGED <<jobs, sched, jobs_copy, unfinished_jobs, queue,
                   current_job, finished_jobs, total_jobs, time,
                   total_context_switches, added_jobs, results, error,
                   last_served>>

\* Scheduler.run: the loop test fails, get_performance is called
RunExit ==
    /\ pc = "while"
    /\ ~LoopCondition
    /\ pc' = "get_performance"
    /\ UNCHANGED pvars
    /\ UNCHANGED <<jobs, sched, jobs_copy, unfinished_jobs, queue,
                   current_job, finished_jobs, total_jobs, time,
                   total_context_switches, added_jobs, results, error,
                   last_served>>

\* Scheduler.run: self.time += 1 ; self.added_jobs = False
Advance ==
    /\ pc = "advance"
    /\ time' = NextTime(time)
    /\ added_jobs' = FALSE
    /\ pc' = "while"
    /\ UNCHANGED pvars
    /\ UNCHANGED <<jobs, sched, jobs_copy, unfinished_jobs, queue,
                   current_job, finished_jobs, total_jobs,
                   total_context_switches, results, error, last_served>>

\* Scheduler.get_performance: the sum of the finished jobs' turnarounds
TurnaroundSum ==
    SumSeq([k \in 1..Len(finished_jobs) |->
               getTurnaround(jobs_copy[finished_jobs[k]])])

\* Scheduler.get_performance; a quotient a / b is kept as the pair <<a, b>>
GetPerformance ==
    /\ pc = "get_performance"
    /\ time # 0
    /\ total_jobs # 0
    /\ results' = Append(results,
                     [name |-> Policy,
                      throughput |-> <<total_jobs, time>>,
                      turnaround |-> <<TurnaroundSum, total_jobs>>,
                      context_switches |-> total_context_switches])
    /\ sched' = sched + 1
    /\ pc' = "sim_loop"
    /\ UNCHANGED pvars
    /\ UNCHANGED <<jobs, jobs_copy, unfinished_jobs, queue, current_job,
                   finished_jobs, total_jobs, time, total_context_switches,
                   added_jobs, error, last_served>>

\* Scheduler.get_performance dividing by zero: the exception propagates out
\* of Simulation.run and main
GetPerformanceError ==
    /\ pc = "get_performance"
    /\ (time = 0 \/ total_jobs = 0)
    /\ error' = "ZeroDivisionError"
    /\ pc' = "error"
    /\ UNCHANGED pvars
    /\ UNCHANGED <<jobs, sched, jobs_copy, unfinished_jobs, queue,
                   current_job, finished_jobs, total_jobs, time,
                   total_context_switches, added_jobs, results, last_served>>

\* ------------------------------------------------------------ Simulation
\* variant: the copy is made once and reused by the later schedulers
CopySource_Reused == IF sched = 1 THEN jobs ELSE jobs_copy

\* Simulation.run: the list handed to copy.deepcopy is self.jobs
CopySource == jobs

\* copy.deepcopy: new Job objects with the same field values
deepcopy(js) == [i \in 1..Len(js) |-> [f \in DOMAIN js[i] |-> js[i][f]]]

\* Simulation.run: jobs_copy = copy.deepcopy(self.jobs); scheduler(jobs_copy)
\* (Scheduler.__init__); manager.run() is entered
SimNext ==
    /\ pc = "sim_loop"
    /\ sched <= Len(schedulers)
    /\ jobs_copy' = deepcopy(CopySource)
    /\ unfinished_jobs' = [i \in 1..Len(jobs) |-> i]
    /\ queue' = <<>>
    /\ current_job' = None
    /\ finished_jobs' = <<>>
    /\ total_jobs' = Len(jobs)
    /\ time' = 0
    /\ total_context_switches' = 0
    /\ added_jobs' = FALSE
    /\ last_served' = [i \in 1..Len(jobs) |-> -1]
    /\ pc' = "while"
    /\ UNCHANGED pvars
    /\ UNCHANGED <<jobs, sched, results, error>>

\* Simulation.run: the for loop over schedulers is exhausted
SimDone ==
    /\ pc = "sim_loop"
    /\ sched > Len(schedulers)
    /\ pc' = "done"
    /\ UNCHANGED pvars
    /\ UNCHANGED <<jobs, sched, jobs_copy, unfinished_jobs, queue,
                   current_job, finished_jobs, total_jobs, time,
                   total_context_switches, added_jobs, results, error,
                   last_served>>

Next ==
    \/ SimNext
    \/ RunLoop
    \/ GetReadyJobs
    \/ Work
    \/ FCFS_context_switch
    \/ SJF_context_switch
    \/ SRTN_context_switch
    \/ RR_context_switch
    \/ Advance
    \/ RunExit
    \/ GetPerformance
    \/ GetPerformanceError
    \/ SimDone

Spec == Init /\ [][Next]_vars

\* the interpreter always executes the next statement
FairSpec == Spec /\ WF_vars(Next)

TypeOK ==
    /\ sched \in 1..(Len(schedulers) + 1)
    /\ current_job \in 0..Len(jobs)
    /\ time \in Nat
    /\ total_context_switches \in Nat
    /\ added_jobs \in BOOLEAN
    /\ pc \in {"sim_loop", "while", "get_ready_jobs", "work",
               "context_switch", "advance", "get_performance", "error",
               "done", "off"}
    /\ error \in {"none", "ZeroDivisionError"}

\* ==================================================== page_replacement.py
\* algos = [Optimal, FIFO, LRU, SecondChance]
algos == <<"Optimal", "FIFO", "LRU", "SecondChance">>

\* the class Simulation.run is currently driving
Algo == IF algo \in 1..Len(algos) THEN algos[algo] ELSE "none"

\* self.pages[index], index counted from 0
PageAt(i) == pages[i + 1]

\* `page in self.frames`
InFrames(fr, page) == \E k \in 1..Len(fr) : fr[k] = page

\* list.index(x) counted from 0: position of the first occurrence
PyIndex(q, x) ==
    (CHOOSE k \in 1..Len(q) : q[k] = x /\ \A m \in 1..(k - 1) : q[m] # x) - 1

\* list.pop(i), i counted from 0: the list that is left
PyPopAt(q, i) == SubSeq(q, 1, i) \o SubSeq(q, i + 2, Len(q))

\* dict[key] = value
DictSet(d, key, value) ==
    [k \in (DOMAIN d) \cup {key} |-> IF k = key THEN value ELSE d[k]]

\* PageReplacementAlgo.isFull
isFull(fr) == Len(fr) >= total_page_frames

\* PageReplacementAlgo.add_page and SecondChance.add_page, on the object
\* state o = [frames, second_chances]
add_page(cls, o, i) ==
    IF cls = "SecondChance"
    THEN [frames |-> Append(o.frames, PageAt(i)),
          second_chances |-> DictSet(o.second_chances, PageAt(i), 0)]
    ELSE [o EXCEPT !.frames = Append(o.frames, PageAt(i))]

\* LRU.get_page: pop the page and add it again (self.add_page is the
\* class's own add_page)
LRU_get_page(cls, o, i) ==
    add_page(cls,
             [o EXCEPT !.frames = PyPopAt(o.frames, PyIndex(o.frames, PageAt(i)))],
             i)

\* get_page of each class
get_page(cls, o, i) ==
    IF cls = "LRU" THEN LRU_get_page(cls, o, i)
    ELSE IF cls = "SecondChance"
    THEN LET o1 == LRU_get_page(cls, o, i)
         IN  [o1 EXCEPT !.second_chances =
                            DictSet(o1.second_chances, PageAt(i), 1)]
    ELSE o

\* Optimal.replace_page: next_references, the distance to the next use of
\* each resident page in pages[index:], math.inf when it is not used again
next_references(fr, i) ==
    LET remaining_pages == SubSeq(pages, i + 1, Len(pages))
    IN  [k \in 1..Len(fr) |->
            IF InFrames(remaining_pages, fr[k])
            THEN PyIndex(remaining_pages, fr[k])
            ELSE Inf]

\* Optimal.replace_page: furthest_index, the first position holding the
\* maximum of next_references (counted from 0)
furthest_index(refs) ==
    LET furthest_reference ==
            CHOOSE m \in {refs[k] : k \in 1..Len(refs)} :
                \A k \in 1..Len(refs) : refs[k] <= m
    IN  PyIndex(refs, furthest_reference)

RECURSIVE SecondChanceScan(_, _)
\* SecondChance.replace_page: the loop `for i in range(len(frames) - 2, 0,
\* -1)`, from position i down to 1; a page with a second chance loses it
\* and is skipped, the first page without one is popped and the loop ends
SecondChanceScan(o, i) ==
    IF i <= 0 THEN o
    ELSE LET current_page == o.frames[i + 1]
         IN  IF o.second_chances[current_page] = 1
             THEN SecondChanceScan(
                      [o EXCEPT !.second_chances =
                                    DictSet(o.second_chances, current_page, 0)],
                      i - 1)
             ELSE [o EXCEPT !.frames = PyPopAt(o.frames, i)]

\* replace_page of each class
replace_page(cls, o, i) ==
    IF cls = "Optimal"
    THEN add_page(cls,
                  [o EXCEPT !.frames =
                       PyPopAt(o.frames,
                               furthest_index(next_references(o.frames, i)))],
                  i)
    ELSE IF cls = "SecondChance"
    THEN add_page(cls, SecondChanceScan(o, Len(o.frames) - 2), i)
    ELSE add_page(cls, [o EXCEPT !.frames = PyPopAt(o.frames, 0)], i)

\* the object state of the running algorithm
Obj == [frames |-> frames, second_chances |-> second_chances]

\* bounds of the page-replacement inputs
MaxFrames == 3
MaxRefs == 5
MaxPage == 4

\* cpu-scheduling-simulation.py is not running
SchedOff ==
    /\ jobs = <<>>
    /\ sched = 1
    /\ jobs_copy = <<>>
    /\ unfinished_jobs = <<>>
    /\ queue = <<>>
    /\ current_job = None
    /\ finished_jobs = <<>>
    /\ total_jobs = 0
    /\ time = 0
    /\ total_context_switches = 0
    /\ added_jobs = FALSE
    /\ pc = "off"
    /\ results = <<>>
    /\ error = "none"
    /\ last_served = <<>>

\* Simulation.__init__ / read_data: the frame count and the reference string
PageInit ==
    /\ SchedOff
    /\ total_page_frames \in 1..MaxFrames
    /\ pages \in UNION {[1..n -> 1..MaxPage] : n \in 0..MaxRefs}
    /\ algo = 1
    /\ frames = <<>>
    /\ second_chances = <<>>
    /\ index = 0
    /\ total_page_faults = 0
    /\ page_results = <<>>
    /\ ppc = "sim_loop"

\* Simulation.run: thing = algo(self.total_page_frames, self.pages), and
\* thing.run() is entered
PageSimNext ==
    /\ ppc = "sim_loop"
    /\ algo <= Len(algos)
    /\ frames' = <<>>
    /\ second_chances' = <<>>
    /\ index' = 0
    /\ total_page_faults' = 0
    /\ ppc' = "for"
    /\ UNCHANGED <<total_page_frames, pages, algo, page_results>>
    /\ UNCHANGED svars

\* run: the reference is resident, get_page and continue
RunHit ==
    /\ ppc = "for"
    /\ index < Len(pages)
    /\ InFrames(frames, PageAt(index))
    /\ LET o == get_page(Algo, Obj, index)
       IN  /\ frames' = o.frames
           /\ second_chances' = o.second_chances
    /\ index' = index + 1
    /\ UNCHANGED <<total_page_frames, pages, algo, total_page_faults,
                   page_results, ppc>>
    /\ UNCHANGED svars

\* run: page fault with a free frame, add_page
RunFaultAdd ==
    /\ ppc = "for"
    /\ index < Len(pages)
    /\ ~InFrames(frames, PageAt(index))
    /\ ~isFull(frames)
    /\ LET o == add_page(Algo, Obj, index)
       IN  /\ frames' = o.frames
           /\ second_chances' = o.second_chances
    /\ total_page_faults' = total_page_faults + 1
    /\ index' = index + 1
    /\ UNCHANGED <<total_page_frames, pages, algo, page_results, ppc>>
    /\ UNCHANGED svars

\* run: page fault with the frames full, replace_page
RunFaultReplace ==
    /\ ppc = "for"
    /\ index < Len(pages)
    /\ ~InFrames(frames, PageAt(index))
    /\ isFull(frames)
    /\ LET o == replace_page(Algo, Obj, index)
       IN  /\ frames' = o.frames
           /\ second_chances' = o.second_chances
    /\ total_page_faults' = total_page_faults + 1
    /\ index' = index + 1
    /\ UNCHANGED <<total_page_frames, pages, algo, page_results, ppc>>
    /\ UNCHANGED svars

\* run: the references are exhausted, return total_page_faults
RunReturn ==
    /\ ppc = "for"
    /\ index = Len(pages)
    /\ page_results' = Append(page_results, total_page_faults)
    /\ algo' = algo + 1
    /\ ppc' = "sim_loop"
    /\ UNCHANGED <<total_page_frames, pages, frames, second_chances, index,
                   total_page_faults>>
    /\ UNCHANGED svars

\* Simulation.run: the for loop over algos is exhausted
PageSimDone ==
    /\ ppc = "sim_loop"
    /\ algo > Len(algos)
    /\ ppc' = "done"
    /\ UNCHANGED <<total_page_frames, pages, algo, frames, second_chances,
                   index, total_page_faults, page_results>>
    /\ UNCHANGED svars

PageNext ==
    \/ PageSimNext
    \/ RunHit
    \/ RunFaultAdd
    \/ RunFaultReplace
    \/ RunReturn
    \/ PageSimDone

PageSpec == PageInit /\ [][PageNext]_vars

\* ============================================================ properties
\* control positions inside Scheduler.run
InRun == pc \in {"while", "get_ready_jobs", "work", "context_switch",
                 "advance", "get_performance"}

\* number of places job j is held in
Places(j) ==
    Cardinality({k \in 1..Len(unfinished_jobs) : unfinished_jobs[k] = j})
    + Cardinality({k \in 1..Len(queue) : queue[k] = j})
    + (IF current_job = j THEN 1 ELSE 0)
    + Cardinality({k \in 1..Len(finished_jobs) : finished_jobs[k] = j})

\* C1: at every control position of Scheduler.run, under every policy, each
\* job is in exactly one of unfinished_jobs, queue, current_job and
\* finished_jobs, and the four sizes sum to total_jobs.
C1_Conservation ==
    InRun =>
        /\ \A j \in 1..total_jobs : Places(j) = 1
        /\ Len(unfinished_jobs) + Len(queue)
             + (IF current_job = None THEN 0 ELSE 1)
             + Len(finished_jobs) = total_jobs

\* a job that was taken off the processor waits in the queue while another
\* runs and a third has finished
C1_Witness ==
    /\ pc = "advance"
    /\ current_job # None
    /\ finished_jobs # <<>>
    /\ \E k \in 1..Len(queue) :
           jobs_copy[queue[k]].currentDuration < jobs_copy[queue[k]].duration

\* one step of a run, seen from job j
RemainingStep(j) ==
    LET cur == jobs_copy[j].currentDuration
        cur2 == jobs_copy'[j].currentDuration
        fin == jobs_copy[j].finished_at
        fin2 == jobs_copy'[j].finished_at
    IN  /\ cur2 <= cur
        /\ cur2 >= 0
        /\ (cur = 0 => cur2 = 0)
        /\ (cur > 0 /\ cur2 = 0 => fin2 = time)
        /\ (fin # Inf => fin2 = fin)
        /\ (fin2 # fin => cur > 0 /\ cur2 = 0)

\* C2: within a run, a job's currentDuration never increases, never goes
\* below 0 and, once 0, stays 0; finished_at is set to the current tick in the
\* step that takes currentDuration to 0 and in no other step; when the loop
\* is left every job has reached 0 and has a finish tick.
C2_MonotonicRemaining ==
    /\ [][(InRun /\ pc' # "sim_loop") =>
             \A j \in 1..total_jobs : RemainingStep(j)]_vars
    /\ [](pc = "get_performance" =>
             \A j \in 1..total_jobs :
                 /\ jobs_copy[j].currentDuration = 0
                 /\ jobs_copy[j].finished_at # Inf)

\* a job finished at an earlier tick while another still has work left
C2_Witness ==
    /\ pc = "work"
    /\ \E j \in 1..total_jobs :
           /\ jobs_copy[j].currentDuration = 0
           /\ jobs_copy[j].finished_at < time
    /\ \E k \in 1..total_jobs :
           /\ jobs_copy[k].currentDuration > 0
           /\ jobs_copy[k].currentDuration < jobs_copy[k].duration

\* C3: every finished job has finished_at - submitted_at >= duration.
C3_TurnaroundAtLeastDuration ==
    InRun =>
        \A k \in 1..Len(finished_jobs) :
            getTurnaround(jobs_copy[finished_jobs[k]])
                >= jobs_copy[finished_jobs[k]].duration

\* one finished job ran without waiting, another had to wait
C3_Witness ==
    /\ InRun
    /\ \E k \in 1..Len(finished_jobs) :
           getTurnaround(jobs_copy[finished_jobs[k]])
               = jobs_copy[finished_jobs[k]].duration
    /\ \E k \in 1..Len(finished_jobs) :
           getTurnaround(jobs_copy[finished_jobs[k]])
               > jobs_copy[finished_jobs[k]].duration

\* C4: every Scheduler.run on a non-empty job list leaves its loop, and the
\* loop is left exactly when finished_jobs holds total_jobs entries (the body
\* is entered only while it holds fewer).
C4_Termination ==
    /\ (pc = "while" /\ total_jobs > 0) ~> (pc = "get_performance")
    /\ [](pc = "get_performance" => Len(finished_jobs) = total_jobs)
    /\ [](pc \in {"get_ready_jobs", "work"} =>
             Len(finished_jobs) < total_jobs)

\* a run left its loop in which one job arrived only after every other job
\* had finished (the processor idled in between)
C4_Witness ==
    /\ pc = "get_performance"
    /\ total_jobs > 1
    /\ \E j \in 1..total_jobs :
           /\ jobs_copy[j].submitted_at > 0
           /\ \A k \in 1..total_jobs :
                  k # j => jobs_copy[k].finished_at
                              < jobs_copy[j].submitted_at

\* C5: with an empty job list the Scheduler fails at construction with
\* InvalidInput: no run is entered and get_performance is never reached.
C5_InvalidInputAtConstruction ==
    Len(jobs) = 0 =>
        /\ pc \notin {"while", "get_performance"}
        /\ error \in {"none", "InvalidInput"}

\* every job of the input arrives at tick 0
AllAtZero == \A i \in 1..Len(jobs) : jobs[i].submitted_at = 0

\* the durations of the input are pairwise distinct
DistinctDurations ==
    \A i, j \in 1..Len(jobs) : i # j => jobs[i].duration # jobs[j].duration

\* finish ticks in the order the jobs entered finished_jobs
FinishTicks ==
    [k \in 1..Len(finished_jobs) |-> jobs_copy[finished_jobs[k]].finished_at]

\* C6: under FCFS with all jobs arriving at tick 0 and distinct durations,
\* jobs enter finished_jobs in input order: a job that has finished did so
\* strictly after every job before it in the input.
C6_FCFSInputOrder ==
    (InRun /\ Policy = "FCFS" /\ AllAtZero /\ DistinctDurations) =>
        /\ finished_jobs = [k \in 1..Len(finished_jobs) |-> k]
        /\ \A i, j \in 1..total_jobs :
               (i < j /\ jobs_copy[j].finished_at # Inf) =>
                   jobs_copy[i].finished_at < jobs_copy[j].finished_at

\* an FCFS run over several jobs at tick 0, the longest first, is complete
C6_Witness ==
    /\ pc = "get_performance"
    /\ Policy = "FCFS"
    /\ AllAtZero
    /\ DistinctDurations
    /\ total_jobs >= 2
    /\ jobs[1].duration > jobs[2].duration
    /\ Len(finished_jobs) = total_jobs

\* mean a[1]/a[2] <= mean b[1]/b[2], for positive denominators
MeanLeq(a, b) == a[1] * b[2] <= b[1] * a[2]
MeanLess(a, b) == a[1] * b[2] < b[1] * a[2]
\* mean a[1]/a[2] equals the decimal h/100
MeanIs(a, h) == a[1] * 100 = h * a[2]

\* C7: when all jobs arrive at tick 0 the mean turnaround of SJF is at most
\* that of FCFS; on durations 5,2,8,1 FCFS finishes at 5,7,15,16 (sum 43,
\* mean 10.75) and SJF at 1,3,8,16 (sum 28, mean 7.0).
C7_SJFNotWorseThanFCFS ==
    /\ (Len(results) >= 2 /\ AllAtZero) =>
           /\ MeanLeq(results[2].turnaround, results[1].turnaround)
           /\ results[2].turnaround[1] <= results[1].turnaround[1]
    /\ (jobs = MkJobs(FixtureAllAtZero) /\ pc = "get_performance") =>
           /\ Policy = "FCFS" =>
                  /\ FinishTicks = <<5, 7, 15, 16>>
                  /\ TurnaroundSum = 43
           /\ Policy = "SJF" =>
                  /\ FinishTicks = <<1, 3, 8, 16>>
                  /\ TurnaroundSum = 28
    /\ (jobs = MkJobs(FixtureAllAtZero) /\ Len(results) >= 2) =>
           /\ MeanIs(results[1].turnaround, 1075)
           /\ MeanIs(results[2].turnaround, 700)

\* both policies have reported on the fixture and SJF did strictly better
C7_Witness ==
    /\ jobs = MkJobs(FixtureAllAtZero)
    /\ Len(results) >= 2
    /\ results[1].name = "FCFS"
    /\ results[2].name = "SJF"
    /\ MeanLess(results[2].turnaround, results[1].turnaround)

\* the SRTN run on the fixture A (0, 10), B (1, 2)
OnStaggeredSRTN == jobs = MkJobs(FixtureStaggered) /\ Policy = "SRTN" /\ InRun

\* C8 as stated: A is preempted for B at tick 1, B finishes at tick 3, A is
\* resumed and finishes at tick 11; turnarounds 11 and 2, sum 13, mean 6.5.
C8_Original ==
    OnStaggeredSRTN =>
        /\ (pc = "advance" /\ time = 1) => (current_job = 2 /\ queue = <<1>>)
        /\ (pc = "advance" /\ time = 3) => (current_job = 1 /\ queue = <<>>)
        /\ pc = "get_performance" =>
               /\ jobs_copy[2].finished_at = 3
               /\ jobs_copy[1].finished_at = 11
               /\ TurnaroundSum = 13
               /\ MeanIs(<<TurnaroundSum, total_jobs>>, 650)

\* C8 amended: A is preempted for B at tick 1, B finishes at tick 3, A is
\* resumed at tick 3 and finishes at tick 12; turnarounds 12 and 2, sum 14,
\* mean 7.0.
C8_SRTNFixture ==
    OnStaggeredSRTN =>
        /\ (pc = "advance" /\ time = 1) => (current_job = 2 /\ queue = <<1>>)
        /\ (pc = "advance" /\ time = 3) => (current_job = 1 /\ queue = <<>>)
        /\ pc = "get_performance" =>
               /\ jobs_copy[2].finished_at = 3
               /\ jobs_copy[1].finished_at = 12
               /\ getTurnaround(jobs_copy[1]) = 12
               /\ getTurnaround(jobs_copy[2]) = 2
               /\ TurnaroundSum = 14
               /\ MeanIs(<<TurnaroundSum, total_jobs>>, 700)

\* the SRTN run on the fixture is complete, after three dispatches
C8_Witness ==
    /\ OnStaggeredSRTN
    /\ pc = "get_performance"
    /\ finished_jobs = <<2, 1>>
    /\ total_context_switches = 3

\* C9: on the fixture A (0, 10), B (1, 2) FCFS finishes A at 10 and B at 12
\* (turnaround sum 21, mean 10.5), SRTN's mean turnaround is strictly
\* smaller than FCFS's and not larger than SJF's.
C9_SRTNBeatsFCFS ==
    jobs = MkJobs(FixtureStaggered) =>
        /\ (pc = "get_performance" /\ Policy = "FCFS") =>
               /\ jobs_copy[1].finished_at = 10
               /\ jobs_copy[2].finished_at = 12
               /\ TurnaroundSum = 21
        /\ Len(results) >= 1 => MeanIs(results[1].turnaround, 1050)
        /\ Len(results) >= 3 =>
               /\ MeanLess(results[3].turnaround, results[1].turnaround)
               /\ MeanLeq(results[3].turnaround, results[2].turnaround)

\* FCFS, SJF and SRTN have all reported on the fixture
C9_Witness ==
    /\ jobs = MkJobs(FixtureStaggered)
    /\ Len(results) >= 3
    /\ results[1].name = "FCFS"
    /\ results[2].name = "SJF"
    /\ results[3].name = "SRTN"

Max2(a, b) == IF a >= b THEN a ELSE b

\* the tick at which the last job is admitted
AllAdmittedAt ==
    LET S == {jobs_copy[i].submitted_at : i \in 1..total_jobs}
    IN  CHOOSE m \in S : \A x \in S : x <= m

\* ticks job j has gone without service, counted after this tick's service,
\* since its latest service or since the last admission, whichever is later
WaitedTicks(j) == time - Max2(last_served[j], AllAdmittedAt)

\* C10: under Round Robin, once every job has been admitted, an unfinished
\* job has never gone more than total_jobs - 1 ticks without service.
C10_RRFairness ==
    (Policy = "RR" /\ pc \in {"context_switch", "advance"}
        /\ total_jobs > 0 /\ unfinished_jobs = <<>>) =>
        \A j \in 1..total_jobs :
            jobs_copy[j].currentDuration > 0 =>
                WaitedTicks(j) <= total_jobs - 1

\* a job that was served before has waited total_jobs - 1 > 0 ticks since
C10_Witness ==
    /\ Policy = "RR"
    /\ pc = "advance"
    /\ unfinished_jobs = <<>>
    /\ total_jobs >= 2
    /\ \E j \in 1..total_jobs :
           /\ jobs_copy[j].currentDuration > 0
           /\ last_served[j] >= AllAdmittedAt
           /\ WaitedTicks(j) = total_jobs - 1

\* the first state of a Scheduler.run: the loop test before tick 0
RunStart == pc = "while" /\ time = 0

\* C11: every policy run works on its own copy: the original jobs keep
\* currentDuration = duration and finished_at unset throughout, and each run
\* starts with every job of its copy in that same fresh state, whatever ran
\* before.
C11_IndependentCopies ==
    /\ \A i \in 1..Len(jobs) :
           /\ jobs[i].currentDuration = jobs[i].duration
           /\ jobs[i].finished_at = Inf
    /\ RunStart =>
           /\ Len(jobs_copy) = Len(jobs)
           /\ \A i \in 1..Len(jobs_copy) :
                  /\ jobs_copy[i].currentDuration = jobs[i].duration
                  /\ jobs_copy[i].duration = jobs[i].duration
                  /\ jobs_copy[i].submitted_at = jobs[i].submitted_at
                  /\ jobs_copy[i].finished_at = Inf

\* the fourth run starts after three runs finished all their jobs
C11_Witness ==
    /\ RunStart
    /\ sched = 4
    /\ Len(results) = 3
    /\ total_jobs >= 2

\* C12: under Round Robin the counter grows by one in every tick, so it
\* equals the number of dispatch steps executed: time at the loop test, and
\* at the end of the run, time + 1 between the dispatch and the clock
\* advance.
C12_RRCountsEveryTick ==
    (InRun /\ Policy = "RR") =>
        /\ pc \in {"while", "get_ready_jobs", "work", "context_switch",
                   "get_performance"} => total_context_switches = time
        /\ pc = "advance" => total_context_switches = time + 1

\* a Round Robin run that began with an idle tick (nothing running, nothing
\* ready) is complete
C12_Witness ==
    /\ pc = "get_performance"
    /\ Policy = "RR"
    /\ total_jobs >= 1
    /\ \A j \in 1..total_jobs : jobs_copy[j].submitted_at > 0
    /\ total_context_switches = time

\* remaining duration of job j of the running scheduler
Rem(j) == jobs_copy[j].currentDuration

\* position in the queue of the first job of minimum remaining duration
CandidatePos ==
    CHOOSE i \in 1..Len(queue) :
        /\ \A k \in 1..(i - 1) : Rem(queue[k]) > Rem(queue[i])
        /\ \A k \in (i + 1)..Len(queue) : Rem(queue[k]) >= Rem(queue[i])

\* the queue without its element at position i
Without(q, i) == SubSeq(q, 1, i - 1) \o SubSeq(q, i + 1, Len(q))

\* some job's arrival tick is the current tick
AdmittedThisTick ==
    \E j \in 1..total_jobs : jobs_copy[j].submitted_at = time

\* the four cases of an SRTN dispatch step
SRTNStepOK ==
    IF queue = <<>>
    THEN UNCHANGED <<total_context_switches, current_job, queue>>
    ELSE LET c == queue[CandidatePos]
         IN  IF current_job = None
             THEN /\ current_job' = c
                  /\ queue' = Without(queue, CandidatePos)
                  /\ total_context_switches' = total_context_switches + 1
             ELSE IF Rem(c) < Rem(current_job)
             THEN /\ current_job' = c
                  /\ queue' = Append(Without(queue, CandidatePos), current_job)
                  /\ total_context_switches' = total_context_switches + 1
             ELSE IF AdmittedThisTick
             THEN /\ total_context_switches' = total_context_switches + 1
                  /\ UNCHANGED <<current_job, queue>>
             ELSE UNCHANGED <<total_context_switches, current_job, queue>>

\* C13: every SRTN dispatch step is one of the cases (a) dispatch on a free
\* processor, (b) preemption by a strictly shorter candidate with the
\* running job requeued at the tail, (c) a counted re-check when jobs were
\* admitted this tick, (d) no change; the admitted flag is false when a tick
\* begins and, after admission, tells whether a job arrived at this tick.
C13_SRTNDispatchCases ==
    /\ [][(pc = "context_switch" /\ Policy = "SRTN") => SRTNStepOK]_vars
    /\ [](pc \in {"while", "get_ready_jobs"} => added_jobs = FALSE)
    /\ []((InRun /\ pc \in {"work", "context_switch", "advance"}) =>
              (added_jobs <=> AdmittedThisTick))

\* after a dispatch step of case (c): the job served in this tick is still
\* running, the queue is not empty and a job was admitted in this tick
C13_Witness ==
    /\ pc = "advance"
    /\ Policy = "SRTN"
    /\ added_jobs
    /\ queue # <<>>
    /\ current_job # None
    /\ last_served[current_job] = time
    /\ total_context_switches >= 2

\* C14: under FCFS and SJF the running job keeps the processor until its
\* remaining duration is 0: it leaves only as finished, no queued job has
\* been served before, and the ticks in which a job is served are
\* consecutive.
C14_NonPreemptive ==
    /\ [][(InRun /\ pc' # "sim_loop" /\ Policy \in {"FCFS", "SJF"}
              /\ current_job # None) =>
             \/ current_job' = current_job
             \/ /\ current_job' = None
                /\ jobs_copy'[current_job].currentDuration = 0
                /\ finished_jobs' = Append(finished_jobs, current_job)]_vars
    /\ []((InRun /\ Policy \in {"FCFS", "SJF"}) =>
              \A k \in 1..Len(queue) :
                  Rem(queue[k]) = jobs_copy[queue[k]].duration)
    /\ []((InRun /\ Policy \in {"FCFS", "SJF"} /\ pc = "work"
              /\ current_job # None) =>
              \/ Rem(current_job) = jobs_copy[current_job].duration
              \/ last_served[current_job] = time - 1)

\* under SJF a partly served job is running while a job shorter than what
\* is left of it waits in the queue
C14_Witness ==
    /\ pc = "advance"
    /\ Policy = "SJF"
    /\ current_job # None
    /\ Rem(current_job) < jobs_copy[current_job].duration
    /\ \E k \in 1..Len(queue) :
           jobs_copy[queue[k]].duration < Rem(current_job)

\* C15: when a dispatch step ends with a non-empty ready queue a job is
\* running; every run that starts ends, and when it ends every job has
\* been dispatched and served at a tick after its admission, so no admitted
\* job is left waiting for ever.
C15_WorkConserving ==
    /\ [](pc = "advance" => (queue # <<>> => current_job # None))
    /\ [](pc = "get_performance" =>
              \A j \in 1..total_jobs :
                  last_served[j] > jobs_copy[j].submitted_at)
    /\ (InRun /\ queue # <<>>) ~> (pc = "get_performance")

\* after a dispatch step a job runs while another one waits
C15_Witness ==
    /\ pc = "advance"
    /\ queue # <<>>
    /\ current_job # None
    /\ Policy = "SRTN"

\* a job received its unit of service in the current tick
ServedThisTick == \E j \in 1..total_jobs : last_served[j] = time

\* C16 as stated: in every tick of the loop a running job is served or at
\* least one job is admitted.
C16_Original ==
    (InRun /\ pc = "context_switch") => (ServedThisTick \/ AdmittedThisTick)

\* C16 amended: in every tick of the loop a running job is served, or at
\* least one job is admitted, or the tick is idle: nothing is running,
\* nothing is ready and some job has not arrived yet.
C16_TickProgress ==
    (InRun /\ pc = "context_switch") =>
        \/ ServedThisTick
        \/ AdmittedThisTick
        \/ (current_job = None /\ queue = <<>> /\ unfinished_jobs # <<>>)

\* an idle tick: no service, no admission, a job still to arrive
C16_Witness ==
    /\ pc = "context_switch"
    /\ ~ServedThisTick
    /\ ~AdmittedThisTick
    /\ current_job = None
    /\ queue = <<>>
    /\ unfinished_jobs # <<>>

\* jobs that have left the ready queue: the running one and the finished
LeftQueue == Len(finished_jobs) + (IF current_job = None THEN 0 ELSE 1)

\* C17: under FCFS and SJF the counter equals the number of jobs that have
\* left the ready queue (never more), and total_jobs when the run ends.
C17_OneSwitchPerJob ==
    (InRun /\ Policy \in {"FCFS", "SJF"}) =>
        /\ total_context_switches <= LeftQueue
        /\ total_context_switches = LeftQueue
        /\ LeftQueue = total_jobs - Len(unfinished_jobs) - Len(queue)
        /\ pc = "get_performance" => total_context_switches = total_jobs

\* an SJF run over several jobs is complete, one switch per job
C17_Witness ==
    /\ pc = "get_performance"
    /\ Policy = "SJF"
    /\ total_jobs >= 2
    /\ total_context_switches = total_jobs

\* C18: under SRTN, after every dispatch step, the running job's remaining
\* duration is at most that of every job in the ready queue.
C18_SRTNRunsShortest ==
    (Policy = "SRTN" /\ pc = "advance" /\ current_job # None) =>
        \A k \in 1..Len(queue) : Rem(current_job) <= Rem(queue[k])

\* after a preemption: the requeued, partly served job is strictly longer
\* than the running one
C18_Witness ==
    /\ Policy = "SRTN"
    /\ pc = "advance"
    /\ current_job # None
    /\ \E k \in 1..Len(queue) :
           /\ Rem(queue[k]) < jobs_copy[queue[k]].duration
           /\ Rem(current_job) < Rem(queue[k])

\* the largest finished_at over the jobs of the running scheduler
LastFinish ==
    LET S == {jobs_copy[j].finished_at : j \in 1..total_jobs}
    IN  CHOOSE m \in S : \A x \in S : x <= m

\* C19: when a run over a non-empty job list leaves its loop, time is the
\* largest finished_at plus one, hence positive; that value is the divisor
\* of the throughput reported.
C19_FinalTick ==
    /\ (pc = "get_performance" /\ total_jobs > 0) =>
           /\ time = LastFinish + 1
           /\ time > 0
    /\ \A k \in 1..Len(results) : results[k].throughput[2] > 0

\* a run over several jobs left its loop; the job finished last is not the
\* last of the input
C19_Witness ==
    /\ pc = "get_performance"
    /\ total_jobs >= 2
    /\ jobs_copy[total_jobs].finished_at < LastFinish
    /\ time = LastFinish + 1

\* C20: for every algorithm, a frame count of at least 1 and any reference
\* string, the number of resident pages never exceeds total_page_frames.
C20_FramesBounded ==
    ppc \in {"for", "sim_loop", "done"} => Len(frames) <= total_page_frames
====
